---- MODULE Spec2Model ----
(***************************************************************************)
(* Scenario discovery utilities (ema_workbench/analysis/                   *)
(* scenario_discovery_util.py): the box-limit algebra shared by PRIM and   *)
(* CART.  Every function of the module is modelled as one call: the data   *)
(* set x is the state, a call action draws its other arguments, applies    *)
(* the function as the code computes it and records arguments and result;  *)
(* Return goes back to the idle state.                                     *)
(***************************************************************************)
EXTENDS Integers, Sequences, FiniteSets, TLC

(***************************************************************************)
(* Bounds of the model.                                                    *)
(***************************************************************************)
\* number of rows (experiments) of the data set
NRows == 2
\* numeric values range over -NegVal .. MaxVal
NegVal == 3
MaxVal == 2
\* longest box sequence handed to the reporting functions
MaxBoxes == 2
\* bits of the significand of the floating point format.  numpy's float64
\* has 53; the model keeps IEEE round-to-nearest-even and bounds the width.
MantissaBits == 5
\* the category labels a categorical column can hold, in sorted order
LabelOrder == <<"A", "B">>

(***************************************************************************)
(* Floating point numbers.  A float is a pair <<n, d>>: the rational n/d   *)
(* in lowest terms with d > 0, or one of the IEEE specials, d = 0:         *)
(* <<1,0>> is inf, <<-1,0>> is -inf and <<0,0>> is nan.                     *)
(***************************************************************************)
Abs(n) == IF n < 0 THEN -n ELSE n

Sign(n) == IF n < 0 THEN -1 ELSE IF n > 0 THEN 1 ELSE 0

RECURSIVE GCD(_, _)
GCD(a, b) == IF b = 0 THEN a ELSE GCD(b, a % b)

RECURSIVE Pow2(_)
Pow2(k) == IF k = 0 THEN 1 ELSE 2 * Pow2(k - 1)

\* the rational n/d (d # 0) in lowest terms
Rat(n, d) ==
    LET g == GCD(Abs(n), Abs(d))
        s == IF d < 0 THEN -1 ELSE 1
    IN  <<(s * n) \div g, (s * d) \div g>>

Inf == <<1, 0>>
NegInf == <<-1, 0>>
NaN == <<0, 0>>
Zero == <<0, 1>>
One == <<1, 1>>

IsNaN(f) == f = NaN
IsInf(f) == f[2] = 0 /\ f[1] # 0
IsFinite(f) == f[2] # 0
IsZero(f) == f[2] # 0 /\ f[1] = 0
SignedInf(s) == IF s < 0 THEN NegInf ELSE Inf

\* the significand m of a float satisfies SignificandMin <= m < SignificandEnd
SignificandEnd == Pow2(MantissaBits)
SignificandMin == Pow2(MantissaBits - 1)

\* <<N, D, e>> with N/D * 2^e the given value and N/D a significand's size
RECURSIVE Scale(_, _, _)
Scale(N, D, e) ==
    IF N >= D * SignificandEnd THEN Scale(N, 2 * D, e + 1)
    ELSE IF N < D * SignificandMin THEN Scale(2 * N, D, e - 1)
    ELSE <<N, D, e>>

\* IEEE rounding of the rational q to the nearest float, ties to even
Fl(q) ==
    IF q[1] = 0 THEN Zero
    ELSE LET s  == Scale(Abs(q[1]), q[2], 0)
             m  == s[1] \div s[2]
             r  == s[1] - m * s[2]
             up == 2 * r > s[2] \/ (2 * r = s[2] /\ m % 2 = 1)
             mm == IF up THEN m + 1 ELSE m
         IN  IF s[3] >= 0 THEN Rat(Sign(q[1]) * mm * Pow2(s[3]), 1)
             ELSE Rat(Sign(q[1]) * mm, Pow2(-s[3]))

FromInt(i) == Fl(<<i, 1>>)

FNeg(f) == <<-f[1], f[2]>>

FMul(f, g) ==
    IF IsNaN(f) \/ IsNaN(g) THEN NaN
    ELSE IF IsInf(f) \/ IsInf(g)
         THEN IF IsZero(f) \/ IsZero(g) THEN NaN
              ELSE SignedInf(Sign(f[1]) * Sign(g[1]))
    ELSE Fl(Rat(f[1] * g[1], f[2] * g[2]))

FAdd(f, g) ==
    IF IsNaN(f) \/ IsNaN(g) THEN NaN
    ELSE IF IsInf(f) /\ IsInf(g) THEN (IF f = g THEN f ELSE NaN)
    ELSE IF IsInf(f) THEN f
    ELSE IF IsInf(g) THEN g
    ELSE Fl(Rat(f[1] * g[2] + g[1] * f[2], f[2] * g[2]))

FSub(f, g) == FAdd(f, FNeg(g))

\* true division as numpy does it: a zero divisor gives inf or nan (with a
\* RuntimeWarning), never an exception
FDiv(f, g) ==
    IF IsNaN(f) \/ IsNaN(g) THEN NaN
    ELSE IF IsZero(g) THEN (IF IsZero(f) THEN NaN ELSE SignedInf(Sign(f[1])))
    ELSE IF IsInf(g) THEN (IF IsInf(f) THEN NaN ELSE Zero)
    ELSE IF IsInf(f) THEN SignedInf(Sign(f[1]) * Sign(g[1]))
    ELSE Fl(Rat(f[1] * g[2], f[2] * g[1]))

\* f < g on floats; false whenever a nan is involved
FLess(f, g) ==
    IF IsNaN(f) \/ IsNaN(g) THEN FALSE
    ELSE IF IsInf(f) THEN f = NegInf /\ g # NegInf
    ELSE IF IsInf(g) THEN g = Inf
    ELSE f[1] * g[2] < g[1] * f[2]

(***************************************************************************)
(* Data.  A DataFrame x is [rows, categories]: rows[r][d] is the value of  *)
(* row r in column d, categories[d] the categories of the dtype of a       *)
(* categorical column.  A box is a function from its columns to the pair   *)
(* <<row 0, row 1>> of the limits DataFrame: <<lower, upper>> for a        *)
(* numeric column and <<set, set>> for a categorical one.                  *)
(***************************************************************************)
REGRESSION == "regression"
BINARY == "binary"
CLASSIFICATION == "classification"

\* the columns of the data set, in column order, and their dtypes
Dims == <<"a", "c">>
DType == [a |-> "int64", c |-> "category", t |-> "datetime64[ns]", l |-> "object"]
\* the Python type of the values a column holds
ValueType == [a |-> "int", c |-> "str", t |-> "Timestamp", l |-> "list"]

Range(s) == {s[i] : i \in DOMAIN s}

\* a Python list or numpy array: the sequence s with its elements evaluated
List(s) == SubSeq(s, 1, Len(s))
DimSet == Range(Dims)
Labels == Range(LabelOrder)

\* the columns of a frame or box f, in column order
Columns(f) == SelectSeq(Dims, LAMBDA d : d \in DOMAIN f)

\* x.dtype == int or x.dtype == float
IsIntOrFloat(d) == DType[d] \in {"int64", "float64"}
\* select_dtypes(np.number)
IsNumber(d) == DType[d] \in {"int64", "float64", "int32", "float32"}
\* the dtype of column d of a limits frame: object when it holds sets
IsObject(d) == ~IsIntOrFloat(d)

SetMin(S) == CHOOSE v \in S : \A w \in S : v <= w
SetMax(S) == CHOOSE v \in S : \A w \in S : w <= v

\* the values of column d
Column(X, d) == {X.rows[r][d] : r \in DOMAIN X.rows}

\* x[dims]: the frame restricted to the columns dims
Project(X, dims) ==
    [rows |-> [r \in DOMAIN X.rows |-> [d \in dims |-> X.rows[r][d]]],
     categories |-> X.categories]

\* box[dims]
ProjectBox(box, dims) == [d \in dims |-> box[d]]

(***************************************************************************)
(* _make_box                                                               *)
(***************************************************************************)
limits_MinOnly(X, d) ==
    IF IsIntOrFloat(d)
    THEN <<SetMin(Column(X, d)), SetMin(Column(X, d))>>
    ELSE <<Column(X, d), Column(X, d)>>

limits(X, d) ==
    IF IsIntOrFloat(d)
    THEN <<SetMin(Column(X, d)), SetMax(Column(X, d))>>
    ELSE <<Column(X, d), Column(X, d)>>

MakeBox(X) == [d \in DOMAIN X.rows[1] |-> limits(X, d)]

\* set(x) hashes the values of the column: TypeError for unhashable ones
SetRaises(d) == ValueType[d] \in {"list", "dict", "set"}

\* a call of _make_box: x.apply(limits) lets an exception of limits through
MakeBoxCall(X) ==
    IF \E d \in DOMAIN X.rows[1] : ~IsIntOrFloat(d) /\ SetRaises(d)
    THEN [raised |-> "TypeError"]
    ELSE [raised |-> "none", box |-> MakeBox(X)]

(***************************************************************************)
(* _in_box                                                                 *)
(***************************************************************************)
\* values.cat.remove_categories(removals): the removed labels become NaN
RemoveCategories(values, removals) ==
    [r \in DOMAIN values |-> IF values[r] \in removals THEN "NaN" ELSE values[r]]

IsNull(values) == [r \in DOMAIN values |-> values[r] = "NaN"]

NumericMask_Strict(values, lower, upper) ==
    [r \in DOMAIN values |-> lower < values[r] /\ values[r] <= upper]

\* (lower <= values) & (values <= upper)
NumericMask(values, lower, upper) ==
    [r \in DOMAIN values |-> lower <= values[r] /\ values[r] <= upper]

CategoricalMask_Removed(values, cats, entries) ==
    LET not_present == cats \ entries
    IN  IF not_present # {}
        THEN IsNull(RemoveCategories(values, not_present))
        ELSE [r \in DOMAIN values |-> TRUE]

\* the mask of one non-numeric column; all true when no category is missing
CategoricalMask(values, cats, entries) ==
    LET not_present == cats \ entries
    IN  IF not_present # {}
        THEN IsNull(RemoveCategories(values, entries))
        ELSE [r \in DOMAIN values |-> TRUE]

ColumnValues(X, d) == [r \in DOMAIN X.rows |-> X.rows[r][d]]

\* x[column].cat.remove_categories(removals): inplace is left at its default,
\* so the call returns a new Series and the column of x keeps its values
RemoveCategoriesCall(values, removals) ==
    [result |-> RemoveCategories(values, removals), self |-> values]

\* the frame x after _in_box has run on it
InBoxArgument(X, boxlim) ==
    [X EXCEPT !.rows = [r \in DOMAIN X.rows |->
        [d \in DOMAIN X.rows[r] |->
            IF ~IsNumber(d) /\ X.categories[d] \ boxlim[d][1] # {}
            THEN RemoveCategoriesCall(ColumnValues(X, d), boxlim[d][1]).self[r]
            ELSE X.rows[r][d]]]]

InBox(X, boxlim) ==
    LET cols == DOMAIN X.rows[1]
    IN  [r \in DOMAIN X.rows |->
           /\ \A d \in {c \in cols : IsNumber(c)} :
                 NumericMask(ColumnValues(X, d), boxlim[d][1], boxlim[d][2])[r]
           /\ \A d \in {c \in cols : ~IsNumber(c)} :
                 CategoricalMask(ColumnValues(X, d), X.categories[d],
                                 boxlim[d][1])[r]]

(***************************************************************************)
(* _determine_restricted_dims, _determine_nr_restricted_dims               *)
(***************************************************************************)
AllEqual_Row0(box_init, box_limits, d) == box_init[d][1] = box_limits[d][1]

\* np.all(box_init.values == box_limits.values, axis=0) for column d
AllEqual(box_init, box_limits, d) ==
    box_init[d][1] = box_limits[d][1] /\ box_init[d][2] = box_limits[d][2]

DetermineRestrictedDims(box_limits, box_init) ==
    SelectSeq(Columns(box_init),
              LAMBDA d : AllEqual(box_init, box_limits, d) = FALSE)

DetermineNrRestrictedDims(box_lims, box_init) ==
    Len(DetermineRestrictedDims(box_lims, box_init))

(***************************************************************************)
(* _normalize: one <<nl, nu>> per requested uncertainty                    *)
(***************************************************************************)
NormalizeNumeric_NoOffset(lower, upper, init_lower, init_upper) ==
    LET dif == FSub(FromInt(init_upper), FromInt(init_lower))
        a   == FDiv(One, dif)
    IN  <<FMul(a, FromInt(lower)), FMul(a, FromInt(upper))>>

NormalizeNumeric(lower, upper, init_lower, init_upper) ==
    LET dif == FSub(FromInt(init_upper), FromInt(init_lower))
        a   == FDiv(One, dif)
        b   == FDiv(FMul(FromInt(-1), FromInt(init_lower)), dif)
    IN  <<FAdd(FMul(a, FromInt(lower)), b), FAdd(FMul(a, FromInt(upper)), b)>>

NormalizeCategorical(entries, init_entries) ==
    <<Zero, FDiv(FromInt(Cardinality(entries)),
                 FromInt(Cardinality(init_entries)))>>

Normalize(box_lim, box_init, uncertainties) ==
    List([i \in DOMAIN uncertainties |->
        LET u == uncertainties[i]
        IN  IF IsObject(u)
            THEN NormalizeCategorical(box_lim[u][1], box_init[u][1])
            ELSE NormalizeNumeric(box_lim[u][1], box_lim[u][2],
                                  box_init[u][1], box_init[u][2])])

(***************************************************************************)
(* _get_sorted_box_lims                                                    *)
(***************************************************************************)
\* the set uncs after the loop over the boxes
RestrictedUnion(boxes, box_init) ==
    UNION {Range(DetermineRestrictedDims(boxes[i], box_init)) : i \in DOMAIN boxes}

SortLess_Descending(f, g) == FLess(g, f) \/ (IsNaN(g) /\ ~IsNaN(f))

\* the order np.argsort sorts floats by: ascending, nan last
SortLess(f, g) == FLess(f, g) \/ (IsNaN(g) /\ ~IsNaN(f))

\* insertion of index i into the sorted indices; equal keys keep their order
RECURSIVE Insert(_, _, _)
Insert(sorted, i, key) ==
    IF sorted = <<>> THEN <<i>>
    ELSE IF SortLess(key[i], key[sorted[Len(sorted)]])
         THEN Append(Insert(SubSeq(sorted, 1, Len(sorted) - 1), i, key),
                     sorted[Len(sorted)])
         ELSE Append(sorted, i)

RECURSIVE ArgSortUpTo(_, _)
ArgSortUpTo(key, n) ==
    IF n = 0 THEN <<>> ELSE Insert(ArgSortUpTo(key, n - 1), n, key)

\* np.argsort: numpy sorts arrays of up to 16 elements by insertion
ArgSort(key) == ArgSortUpTo(key, Len(key))

\* box_lims = [box for box in boxes]: a new list of the same boxes; no
\* statement assigns to boxes or to one of its frames
BoxesArgument(boxes) == boxes

\* uncs is np.asarray(list(uncs)): the restricted dimensions in the
\* iteration order of the Python set, which the caller of this operator
\* draws.  The result is the pair (box_lims, uncs.tolist()).
GetSortedBoxLims(boxes, box_init, uncs) ==
    LET box_lim  == boxes[1]
        nbl      == Normalize(box_lim, box_init, uncs)
        box_size == List([i \in DOMAIN uncs |-> FSub(nbl[i][2], nbl[i][1])])
        order    == ArgSort(box_size)
    IN  <<boxes, List([i \in DOMAIN uncs |-> uncs[order[i]]])>>

(***************************************************************************)
(* _setup                                                                  *)
(***************************************************************************)
\* x.drop(drop_names, axis=1) when incl_unc is not empty
SetupColumns(X, incl_unc) ==
    IF incl_unc # <<>>
    THEN (DOMAIN X.rows[1]) \ ((DOMAIN X.rows[1]) \ Range(incl_unc))
    ELSE DOMAIN X.rows[1]

Drop_InPlace(X, names) ==
    [result |-> Project(X, (DOMAIN X.rows[1]) \ names),
     self   |-> Project(X, (DOMAIN X.rows[1]) \ names)]

\* x.drop(names, axis=1): returns a new frame, the receiver keeps its columns
Drop(X, names) ==
    [result |-> Project(X, (DOMAIN X.rows[1]) \ names), self |-> X]

\* the frame of the results tuple after _setup has run: the local name x is
\* rebound to the frame drop returns
SetupArgument(X, incl_unc) ==
    IF incl_unc # <<>>
    THEN Drop(X, (DOMAIN X.rows[1]) \ Range(incl_unc)).self
    ELSE X

\* a callable classify: the rows whose outcome of exceeds threshold
ApplyClassify(classify, outcomes) ==
    [r \in DOMAIN outcomes[classify.of] |->
        outcomes[classify.of][r] > classify.threshold]

Setup_ModesSwapped(results, classify, incl_unc) ==
    LET X == Project(results[1], SetupColumns(results[1], incl_unc))
    IN  IF classify.type = "str"
        THEN [raised |-> "none", x |-> X, y |-> results[2][classify.name],
              mode |-> BINARY]
        ELSE IF classify.type = "callable"
        THEN [raised |-> "none", x |-> X, y |-> ApplyClassify(classify, results[2]),
              mode |-> REGRESSION]
        ELSE [raised |-> "TypeError"]

Setup(results, classify, incl_unc) ==
    LET X == Project(results[1], SetupColumns(results[1], incl_unc))
    IN  IF classify.type = "str"
        THEN [raised |-> "none", x |-> X, y |-> results[2][classify.name],
              mode |-> REGRESSION]
        ELSE IF classify.type = "callable"
        THEN [raised |-> "none", x |-> X, y |-> ApplyClassify(classify, results[2]),
              mode |-> BINARY]
        ELSE [raised |-> "TypeError"]

(***************************************************************************)
(* _calculate_quasip                                                       *)
(***************************************************************************)
\* the rows a boolean mask selects
Selected(logical) == {r \in DOMAIN logical : logical[r]}

\* int(Hbox): truncation towards zero of a float
IntOf(f) == Sign(f[1]) * (Abs(f[1]) \div f[2])

CalculateQuasip_AllRows(X, y, box, box_init, Hbox, Tbox) ==
    LET restricted_dims == Range(DetermineRestrictedDims(box, box_init))
        Tj == Cardinality(DOMAIN y)
        Hj == Cardinality({r \in DOMAIN y : y[r]})
        p  == FDiv(FromInt(Hj), FromInt(Tj))
    IN  [raised |-> "none", Tj |-> Tj, Hj |-> Hj, p |-> p,
         qp |-> [fn |-> "binom_test", x |-> IntOf(Hbox), n |-> IntOf(Tbox),
                 p |-> p, alternative |-> "greater"]]

\* qp is the value of scipy.stats.binom_test, left uninterpreted
CalculateQuasip(X, y, box, box_init, Hbox, Tbox) ==
    LET restricted_dims == Range(DetermineRestrictedDims(box, box_init))
        logical == InBox(Project(X, restricted_dims),
                         ProjectBox(box, restricted_dims))
        yi == Selected(logical)
        Tj == Cardinality(yi)
        Hj == Cardinality({r \in yi : y[r]})
        p  == FDiv(FromInt(Hj), FromInt(Tj))
    IN  [raised |-> "none", Tj |-> Tj, Hj |-> Hj, p |-> p,
         qp |-> [fn |-> "binom_test", x |-> IntOf(Hbox), n |-> IntOf(Tbox),
                 p |-> p, alternative |-> "greater"]]

\* the caller's loop body for the restricted dimension u: the box with the
\* limits of u reset to those of box_init
RelaxedBox(box, box_init, u) == [box EXCEPT ![u] = box_init[u]]

\* the caller's counts of the box itself: cases of interest and rows
BoxCounts(X, y, box) ==
    LET inside == Selected(InBox(X, box))
    IN  [Hbox |-> FromInt(Cardinality({r \in inside : y[r]})),
         Tbox |-> FromInt(Cardinality(inside))]

(***************************************************************************)
(* OutputFormatterMixin.display_boxes and _plot_unc, _setup_figure         *)
(***************************************************************************)
Index(seq, e) == CHOOSE i \in DOMAIN seq : seq[i] = e

Reverse(seq) == [i \in DOMAIN seq |-> seq[Len(seq) + 1 - i]]

Tenth == Fl(<<1, 10>>)

\* the arguments of one _plot_unc call and what it hands to the axes; i and
\* j count from 0 as in the code, src is the position in box_lims of the
\* box_lim argument
PlotUnc(box_init, xi, i, j, norm_box_lim, box_lim, u, color, src) ==
    LET y == FSub(FromInt(xi), FMul(FromInt(j), Tenth))
    IN  IF IsObject(u)
        THEN LET elements  == SelectSeq(LabelOrder, LAMBDA l : l \in box_init[u][1])
                 max_value == Len(elements) - 1
             IN  [kind |-> "scatter", src |-> src, unc |-> u, box_lim |-> box_lim,
                  xs |-> {FDiv(FromInt(Index(elements, entry) - 1), FromInt(max_value)) :
                             entry \in box_lim[u][1]},
                  y |-> y, color |-> color]
        ELSE [kind |-> "plot", src |-> src, unc |-> u, box_lim |-> box_lim,
              xs |-> norm_box_lim[i + 1], y |-> y, color |-> color]

\* entry/max_value divides two Python ints: ZeroDivisionError when box_init
\* holds a single category and the box is not empty
PlotUncRaises(box_init, box_lim, u) ==
    IsObject(u) /\ Cardinality(box_init[u][1]) = 1 /\ box_lim[u][1] # {}

SetupFigure(uncs) == [yticklabels |-> Reverse(uncs)]

Shown_All(box_lims) == box_lims

\* box_lims[0:-1]
Shown(box_lims) == SubSeq(box_lims, 1, Len(box_lims) - 1)

\* the items of a sequence of sequences, in order
RECURSIVE Flatten(_)
Flatten(ss) == IF ss = <<>> THEN <<>> ELSE ss[1] \o Flatten(Tail(ss))

\* the two loops of display_boxes over the sorted uncertainties and the
\* normalized limits of the boxes shown
DrawBoxes(box_init, box_lims, uncs, norm_box_lims, together) ==
    IF \E j \in DOMAIN norm_box_lims, i \in DOMAIN uncs :
           PlotUncRaises(box_init, box_lims[j], uncs[i])
    THEN [raised |-> "ZeroDivisionError"]
    ELSE IF together
    THEN [raised |-> "none",
          fig |-> [axes |-> SetupFigure(uncs),
                   items |-> Flatten([i \in DOMAIN uncs |->
                       [j \in DOMAIN norm_box_lims |->
                           PlotUnc(box_init, Len(uncs) - (i - 1) - 1, i - 1, j - 1,
                                   norm_box_lims[j], box_lims[j], uncs[i],
                                   j - 1, j)]])]]
    ELSE [raised |-> "none",
          figs |-> [j \in DOMAIN norm_box_lims |->
                      [axes |-> SetupFigure(uncs), title |-> <<"box", j - 1>>,
                       items |-> [i \in DOMAIN uncs |->
                           PlotUnc(box_init, Len(uncs) - (i - 1) - 1, i - 1, 0,
                                   norm_box_lims[j], box_lims[j], uncs[i],
                                   j - 1, j)]]]]

\* norm_box_lims = [_normalize(box_lim, box_init, uncs) for box_lim in
\* box_lims[0:-1]]
NormBoxLims(shown, box_init, uncs) ==
    List([j \in DOMAIN shown |-> Normalize(shown[j], box_init, uncs)])

DisplaySorted(box_init, box_lims, uncs, together) ==
    DrawBoxes(box_init, box_lims, uncs,
              NormBoxLims(Shown(box_lims), box_init, uncs), together)

DisplayFrom(box_init, sorted, together) ==
    DisplaySorted(box_init, sorted[1], sorted[2], together)

DisplayWithin(box_init, boxes, together, set_order) ==
    DisplayFrom(box_init, GetSortedBoxLims(boxes, box_init, set_order), together)

DisplayBoxes(X, boxes, together, set_order) ==
    DisplayWithin(MakeBox(X), boxes, together, set_order)

(***************************************************************************)
(* expWorkbench/util.py: save_results and load_results.  An outcome array  *)
(* is [shape, at]: shape the tuple of its dimensions and at the float at   *)
(* each index tuple (indices count from 1 here, from 0 in the code).  A    *)
(* text is a sequence of tokens, a csv file a sequence of lines of cells,  *)
(* an archive the sequence of its members [name, content] as added.        *)
(***************************************************************************)
RECURSIVE Product(_)
Product(shape) == IF shape = <<>> THEN 1 ELSE shape[1] * Product(Tail(shape))

Indices(shape) ==
    IF Len(shape) = 2
    THEN {<<i, j>> : i \in 1 .. shape[1], j \in 1 .. shape[2]}
    ELSE {<<i, j, k>> : i \in 1 .. shape[1], j \in 1 .. shape[2], k \in 1 .. shape[3]}

\* position of an index tuple in row-major (C) order, from 0
RECURSIVE LinearIndex(_, _)
LinearIndex(shape, ix) ==
    IF ix = <<>> THEN 0
    ELSE (ix[1] - 1) * Product(Tail(shape)) + LinearIndex(Tail(shape), Tail(ix))

\* value[:, :, i]
Slice(value, i) ==
    [shape |-> <<value.shape[1], value.shape[2]>>,
     at    |-> [ix \in Indices(<<value.shape[1], value.shape[2]>>) |->
                   value.at[<<ix[1], ix[2], i + 1>>]]]

RECURSIVE Pow10(_)
Pow10(k) == IF k = 0 THEN 1 ELSE 10 * Pow10(k - 1)

\* the decimal digits of num/den < 1, den a power of two
RECURSIVE FracDigits(_, _)
FracDigits(num, den) ==
    IF num = 0 THEN <<>>
    ELSE <<(10 * num) \div den>> \o FracDigits((10 * num) % den, den)

\* repr of a finite float, as the csv writer writes it: sign, integer part
\* and at least one fractional digit
FormatFloat(f) ==
    LET frac == FracDigits(Abs(f[1]) % f[2], f[2])
    IN  [neg   |-> f[1] < 0,
         whole |-> Abs(f[1]) \div f[2],
         frac  |-> IF frac = <<>> THEN <<0>> ELSE frac]

RECURSIVE DigitsValue(_)
DigitsValue(ds) ==
    IF ds = <<>> THEN 0 ELSE 10 * DigitsValue(SubSeq(ds, 1, Len(ds) - 1)) + ds[Len(ds)]

\* the float a cell is parsed to
ParseFloat(c) ==
    LET n == c.whole * Pow10(Len(c.frac)) + DigitsValue(c.frac)
    IN  Fl(Rat(IF c.neg THEN -n ELSE n, Pow10(Len(c.frac))))

\* save_numpy_array: pd.DataFrame(data).to_csv(fh, header=False, index=False)
ToCsv(data) ==
    [i \in 1 .. data.shape[1] |->
        [j \in 1 .. data.shape[2] |-> FormatFloat(data.at[<<i, j>>])]]

\* read_csv(f, index_col=False, header=None).values
ReadCsv(lines) ==
    [shape |-> <<Len(lines), Len(lines[1])>>,
     at    |-> [ix \in Indices(<<Len(lines), Len(lines[1])>>) |->
                   ParseFloat(lines[ix[1]][ix[2]])]]

\* str(shape) of a tuple of two or more ints
RECURSIVE ShapeItems(_)
ShapeItems(shape) ==
    IF Len(shape) = 1 THEN <<ToString(shape[1])>>
    ELSE <<ToString(shape[1]), ",", " ">> \o ShapeItems(Tail(shape))

ShapeText(shape) == <<"(">> \o ShapeItems(shape) \o <<")">>

\* "{},{}".format(outcome, outcomes[outcome].shape)
MetaLine(outcome, shape) == <<outcome, ",">> \o ShapeText(shape)

\* text.split(",")
RECURSIVE Split(_)
Split(text) ==
    IF \A i \in DOMAIN text : text[i] # "," THEN <<text>>
    ELSE LET i == CHOOSE i \in DOMAIN text :
                      text[i] = "," /\ \A j \in 1 .. i - 1 : text[j] # ","
         IN  <<SubSeq(text, 1, i - 1)>> \o Split(SubSeq(text, i + 1, Len(text)))

\* int(long(entry)): blanks around the digits are ignored
IntOfText(entry) ==
    LET digits == SelectSeq(entry, LAMBDA tok : tok # " ")
    IN  CHOOSE n \in 0 .. 9 : ToString(n) = digits[1]

\* the shape load_results reads from the entries after the outcome's name
ParseShape(entries) ==
    LET first == [entries EXCEPT ![1] = Tail(entries[1])]
        last  == [first EXCEPT ![Len(first)] =
                     SubSeq(first[Len(first)], 1, Len(first[Len(first)]) - 1)]
        kept  == SelectSeq(last, LAMBDA entry : entry # <<>>)
    IN  [i \in DOMAIN kept |-> IntOfText(kept[i])]

\* '{}_{}.csv'.format(key, i)
FileName3D(outcome, i) == outcome \o "_" \o ToString(i) \o ".csv"

\* '{}.csv'.format(key)
FileName(outcome) == outcome \o ".csv"

\* the members save_results adds for one outcome
OutcomeMembers(key, value) ==
    IF Len(value.shape) = 3
    THEN [i \in 1 .. value.shape[3] |->
             [name |-> FileName3D(key, i - 1), content |-> ToCsv(Slice(value, i - 1))]]
    ELSE <<[name |-> FileName(key), content |-> ToCsv(value)]>>

RECURSIVE OutcomeFiles(_, _)
OutcomeFiles(outcomes, keys) ==
    IF keys = <<>> THEN <<>>
    ELSE OutcomeMembers(keys[1], outcomes[keys[1]]) \o OutcomeFiles(outcomes, Tail(keys))

\* save_results: keys is the iteration order of the dict outcomes; the text
\* rec2csv writes for the experiments is not interpreted
SaveResults(results, keys) ==
    <<[name |-> "experiments.csv", content |-> [rec2csv |-> results[1].rows]],
      [name |-> "experiments metadata.csv",
       content |-> [d \in DOMAIN results[1].rows[1] |-> DType[d]]],
      [name |-> "outcomes metadata.csv",
       content |-> [i \in DOMAIN keys |-> MetaLine(keys[i], results[2][keys[i]].shape)]]>>
        \o OutcomeFiles(results[2], keys)

\* z.extractfile(name): of members of one name tarfile takes the last added
HasMember(file, name) == \E i \in DOMAIN file : file[i].name = name
ExtractFile(file, name) ==
    file[CHOOSE i \in DOMAIN file :
            file[i].name = name /\ \A j \in DOMAIN file : file[j].name = name => j <= i].content

\* np.reshape(data, shape)
Reshape(data, shape) ==
    [shape |-> shape,
     at    |-> [ix \in Indices(shape) |->
                   data.at[CHOOSE jx \in Indices(data.shape) :
                              LinearIndex(data.shape, jx) = LinearIndex(shape, ix)]]]

\* whether data[:, :, i] = values can be carried out (numpy broadcasting)
Assignable(shape, values) ==
    /\ values.shape[1] \in {1, shape[1]}
    /\ values.shape[2] \in {1, shape[2]}

\* one pass of the loop over the outcome metadata
LoadOutcome(file, outcome, shape) ==
    IF Len(shape) > 2
    THEN IF \E i \in 0 .. shape[3] - 1 : ~HasMember(file, FileName3D(outcome, i))
         THEN [raised |-> "KeyError"]
         ELSE IF \E i \in 0 .. shape[3] - 1 :
                    ~Assignable(shape, ReadCsv(ExtractFile(file, FileName3D(outcome, i))))
         THEN [raised |-> "ValueError"]
         ELSE [raised |-> "none",
               data |-> [shape |-> shape,
                         at |-> [ix \in Indices(shape) |->
                            LET values == ReadCsv(ExtractFile(file,
                                              FileName3D(outcome, ix[3] - 1)))
                            IN  values.at[<<IF values.shape[1] = 1 THEN 1 ELSE ix[1],
                                            IF values.shape[2] = 1 THEN 1 ELSE ix[2]>>]]]]
    ELSE IF ~HasMember(file, FileName(outcome)) THEN [raised |-> "KeyError"]
         ELSE LET data == ReadCsv(ExtractFile(file, FileName(outcome)))
              IN  IF Product(data.shape) # Product(shape)
                  THEN [raised |-> "ValueError"]
                  ELSE [raised |-> "none", data |-> Reshape(data, shape)]

\* load_results; the experiments csv2rec reads back are not interpreted
LoadResults(file) ==
    LET lines    == ExtractFile(file, "outcomes metadata.csv")
        metadata == [i \in DOMAIN lines |-> Split(lines[i])]
        names    == {metadata[i][1][1] : i \in DOMAIN metadata}
        entriesOf(n) == Tail(metadata[CHOOSE i \in DOMAIN metadata : metadata[i][1][1] = n])
        loaded   == [n \in names |-> LoadOutcome(file, n, ParseShape(entriesOf(n)))]
    IN  IF \E n \in names : loaded[n].raised # "none"
        THEN [raised |-> loaded[CHOOSE n \in names : loaded[n].raised # "none"].raised]
        ELSE [raised |-> "none",
              experiments |-> [csv2rec |-> ExtractFile(file, "experiments.csv"),
                               dtype |-> ExtractFile(file, "experiments metadata.csv")],
              outcomes |-> [n \in names |-> loaded[n].data]]

(***************************************************************************)
(* expWorkbench/util.py: experiments_to_cases.  A structured array is      *)
(* [names, rows]: the field names in dtype order and one record per row.   *)
(***************************************************************************)
\* uncertainties.pop(uncertainties.index(name)), name being in the list
Pop(uncertainties, name) ==
    LET i == CHOOSE i \in DOMAIN uncertainties :
                 uncertainties[i] = name
                     /\ \A j \in 1 .. i - 1 : uncertainties[j] # name
    IN  SubSeq(uncertainties, 1, i - 1)
            \o SubSeq(uncertainties, i + 1, Len(uncertainties))

\* the try block: index raises ValueError for a missing name and the bare
\* except passes, which ends the block
CaseUncertainties(uncertainties) ==
    IF "policy" \notin Range(uncertainties) THEN uncertainties
    ELSE IF "model" \notin Range(Pop(uncertainties, "policy"))
         THEN Pop(uncertainties, "policy")
         ELSE Pop(Pop(uncertainties, "policy"), "model")

\* the loop over the rows: a case is kept when its tuple is not in cache
RECURSIVE CasesUpTo(_, _, _)
CasesUpTo(experiments, uncertainties, n) ==
    IF n = 0 THEN <<>>
    ELSE LET cases == CasesUpTo(experiments, uncertainties, n - 1)
             case  == [u \in Range(uncertainties) |-> experiments.rows[n][u]]
         IN  IF \E i \in DOMAIN cases : cases[i] = case
             THEN cases ELSE Append(cases, case)

ExperimentsToCases(experiments) ==
    CasesUpTo(experiments, CaseUncertainties(experiments.names),
              Len(experiments.rows))

(***************************************************************************)
(* expWorkbench/util.py: merge_results.  downsample = 0 stands for None.   *)
(***************************************************************************)
\* value[:, ::slice_value]
Sliced(value, slice_value) ==
    LET j == (value.shape[2] + slice_value - 1) \div slice_value
    IN  [shape |-> <<value.shape[1], j>>,
         at    |-> [ix \in Indices(<<value.shape[1], j>>) |->
                       value.at[<<ix[1], (ix[2] - 1) * slice_value + 1>>]]]

\* the body of the loop over keys for one key
MergeValue(old_value, new_value, downsample) ==
    LET slice_value == IF downsample # 0 THEN downsample ELSE 1
        \* int(math.ceil(j/downsample)), or old_value.shape[1]
        j    == (old_value.shape[2] + slice_value - 1) \div slice_value
        i    == old_value.shape[1] + new_value.shape[1]
        olds == Sliced(old_value, slice_value)
        news == Sliced(new_value, slice_value)
    IN  IF news.shape[2] \notin {1, j} THEN [raised |-> "ValueError"]
        ELSE [raised |-> "none",
              merged_value |->
                 [shape |-> <<i, j>>,
                  at |-> [ix \in Indices(<<i, j>>) |->
                     IF ix[1] <= old_value.shape[1] THEN olds.at[ix]
                     ELSE news.at[<<ix[1] - old_value.shape[1],
                                    IF news.shape[2] = 1 THEN 1 ELSE ix[2]>>]]]]

\* keys = old_res.keys(), extended by new_res.keys(), as a set
MergeKeys(old_res, new_res) == (DOMAIN old_res) \cup (DOMAIN new_res)

\* the loop over keys in the order given: old_res.get(key) is None for a
\* missing key and None.shape raises AttributeError
RECURSIVE MergeLoop(_, _, _, _, _)
MergeLoop(old_res, new_res, downsample, keys, merged_res) ==
    IF keys = <<>> THEN [raised |-> "none", merged_res |-> merged_res]
    ELSE IF keys[1] \notin DOMAIN old_res \/ keys[1] \notin DOMAIN new_res
    THEN [raised |-> "AttributeError"]
    ELSE LET m == MergeValue(old_res[keys[1]], new_res[keys[1]], downsample)
         IN  IF m.raised # "none" THEN [raised |-> m.raised]
             ELSE MergeLoop(old_res, new_res, downsample, Tail(keys),
                            [k \in (DOMAIN merged_res) \cup {keys[1]} |->
                                IF k = keys[1] THEN m.merged_value
                                ELSE merged_res[k]])

\* keys is the set of keys in its iteration order
MergeResults(results1, results2, downsample, keys) ==
    LET merged_exp == results1[1] \o results2[1]
        loop == MergeLoop(results1[2], results2[2], downsample, keys, <<>>)
    IN  IF loop.raised # "none" THEN [raised |-> loop.raised]
        ELSE [raised |-> "none", merged_exp |-> merged_exp,
              merged_res |-> loop.merged_res]

(***************************************************************************)
(* Inputs                                                                  *)
(***************************************************************************)
Values == (0 - NegVal) .. MaxVal

RowSet == [a : Values, c : Labels]

DataSets ==
    {[rows |-> rs, categories |-> [c |-> cs]] :
        <<rs, cs>> \in {p \in [1 .. NRows -> RowSet] \X SUBSET Labels :
                            {p[1][r].c : r \in 1 .. NRows} \subseteq p[2]}}

\* columns of other dtypes a frame can have: timestamps and lists
OtherDims == {"t", "l"}
OtherValues == 0 .. 1
Cell(d, v) == IF ValueType[d] = "list" THEN <<v>> ELSE v

\* X with the column d of values col added
WithColumn(X, d, col) ==
    [X EXCEPT !.rows = [r \in DOMAIN X.rows |->
        [e \in (DOMAIN X.rows[r]) \cup {d} |->
            IF e = d THEN Cell(d, col[r]) ELSE X.rows[r][e]]]]

\* the frames _make_box is called with: X, or X with one more column
Frames(X) ==
    {X} \cup {WithColumn(X, d, col) :
                 d \in OtherDims, col \in [1 .. NRows -> OtherValues]}

\* the limits of column d a box inside box_init can have
LimitsWithin(init, d) ==
    IF IsIntOrFloat(d)
    THEN {<<l, u>> : <<l, u>> \in {p \in (init[d][1] .. init[d][2]) \X (init[d][1] .. init[d][2]) : p[1] <= p[2]}}
    ELSE {<<S, S>> : S \in (SUBSET init[d][1]) \ {{}}}

\* every box inside the reference box of X
Boxes(X) ==
    LET init == MakeBox(X)
    IN  {[a |-> p, c |-> q] :
            p \in LimitsWithin(init, "a"), q \in LimitsWithin(init, "c")}

\* the sequences of distinct columns
DimLists == {s \in UNION {[1 .. n -> DimSet] : n \in 0 .. Len(Dims)} :
                \A i, j \in DOMAIN s : i # j => s[i] # s[j]}

\* the boxes whose numeric limits are observed values of the column
ObservedBoxes(X) ==
    {b \in Boxes(X) : b.a[1] \in Column(X, "a") /\ b.a[2] \in Column(X, "a")}

\* the box sequences an algorithm hands to the reporting functions
BoxSeqs(X) == UNION {[1 .. n -> ObservedBoxes(X)] : n \in 1 .. MaxBoxes}

\* the orders in which a Python set S can be iterated
Orders(S) == {s \in [1 .. Cardinality(S) -> S] : Range(s) = S}

OutcomeNames == {"o", "p"}
\* the outcome maps: o is any 0/1 vector and p its complement
Outcomes == {[o |-> v, p |-> [r \in 1 .. NRows |-> 1 - v[r]]] :
                v \in [1 .. NRows -> 0 .. 1]}

\* classify: the name of an outcome, a function of the outcomes, or
\* something that is neither
Classifiers ==
    {[type |-> "str", name |-> n] : n \in OutcomeNames}
        \cup {[type |-> "callable", of |-> "o", threshold |-> 0]}
        \cup {[type |-> "NoneType"]}

InclUncs == {<<>>, <<"a">>}

\* the experiments arrays: the columns of X and, in any place of the dtype,
\* the fields policy and model or one of them or neither
ExperimentArrays(X) ==
    {[names |-> names,
      rows  |-> [r \in DOMAIN X.rows |->
                    [f \in Range(names) |->
                        IF f = "policy" THEN "policy " \o ToString(r)
                        ELSE IF f = "model" THEN "model"
                        ELSE X.rows[r][f]]]] :
        names \in UNION {Orders(DimSet \cup E) : E \in SUBSET {"policy", "model"}}}

\* the names of the outcomes a results tuple is saved with
OutcomeKeys == {"a", "a_0"}

\* the values of an outcome array, laid out in row-major order
OutcomeValues == <<Zero, Fl(<<1, 2>>), Fl(<<-3, 4>>), One, Fl(<<5, 4>>)>>

\* the shapes (n, k) and (n, k, r) of the outcome arrays
OutcomeShapes ==
    {<<NRows, k>> : k \in 1 .. 2} \cup {<<NRows, k, 2>> : k \in 1 .. 2}

\* np.zeros(shape), and an array whose entries differ
OutcomeArrays ==
    {[shape |-> shape, at |-> [ix \in Indices(shape) |-> Zero]] :
        shape \in OutcomeShapes}
    \cup {[shape |-> shape,
           at |-> [ix \in Indices(shape) |->
                      OutcomeValues[(LinearIndex(shape, ix) % Len(OutcomeValues)) + 1]]] :
              shape \in OutcomeShapes}

\* the outcome maps of the results merge_results is given
MergedOutcomes ==
    UNION {[K -> {v \in OutcomeArrays : Len(v.shape) = 2 /\ v.at[<<2, 1>>] # Zero}] :
              K \in (SUBSET OutcomeKeys) \ {{}}}

Downsamples == {0, 2}

SavedOutcomes ==
    UNION {[K -> OutcomeArrays] : K \in (SUBSET OutcomeKeys) \ {{}}}

VARIABLES x, call

vars == <<x, call>>

Idle == call.op = "none"

Init == x \in DataSets /\ call = [op |-> "none"]

CallMakeBox ==
    /\ Idle
    /\ \E frame \in Frames(x) :
          call' = [op |-> "make_box", frame |-> frame, res |-> MakeBoxCall(frame)]
    /\ UNCHANGED x

CallInBox ==
    /\ Idle
    /\ \E box \in Boxes(x) :
          /\ call' = [op |-> "in_box", boxlim |-> box, res |-> InBox(x, box)]
          /\ x' = InBoxArgument(x, box)

CallDetermineRestrictedDims ==
    /\ Idle
    /\ \E box \in Boxes(x) :
          call' = [op |-> "restricted_dims", box_limits |-> box,
                   box_init |-> MakeBox(x),
                   res |-> DetermineRestrictedDims(box, MakeBox(x)),
                   nr |-> DetermineNrRestrictedDims(box, MakeBox(x))]
    /\ UNCHANGED x

\* _normalize has no raise statement: raised is always "none"
CallNormalize ==
    /\ Idle
    /\ \E box \in Boxes(x), uncs \in DimLists :
          call' = [op |-> "normalize", box_lim |-> box, box_init |-> MakeBox(x),
                   uncertainties |-> uncs, raised |-> "none",
                   res |-> Normalize(box, MakeBox(x), uncs)]
    /\ UNCHANGED x

CallGetSortedBoxLims ==
    /\ Idle
    /\ \E boxes \in BoxSeqs(x) :
          \E set_order \in Orders(RestrictedUnion(boxes, MakeBox(x))) :
              call' = [op |-> "get_sorted_box_lims", boxes |-> boxes,
                       box_init |-> MakeBox(x), set_order |-> set_order,
                       boxes_after |-> BoxesArgument(boxes),
                       res |-> GetSortedBoxLims(boxes, MakeBox(x), set_order)]
    /\ UNCHANGED x

CallSetup ==
    /\ Idle
    /\ \E outcomes \in Outcomes, classify \in Classifiers, incl_unc \in InclUncs :
          /\ call' = [op |-> "setup", results |-> <<x, outcomes>>,
                      classify |-> classify, incl_unc |-> incl_unc,
                      res |-> Setup(<<x, outcomes>>, classify, incl_unc)]
          /\ x' = SetupArgument(x, incl_unc)

\* one pass of the caller's loop over the restricted dimensions of box
CallCalculateQuasip ==
    /\ Idle
    /\ \E box \in Boxes(x), y \in [1 .. NRows -> BOOLEAN] :
          \E u \in Range(DetermineRestrictedDims(box, MakeBox(x))) :
              LET temp_box == RelaxedBox(box, MakeBox(x), u)
                  counts   == BoxCounts(x, y, box)
              IN  call' = [op |-> "calculate_quasip", y |-> y, box |-> box, u |-> u,
                           temp_box |-> temp_box, box_init |-> MakeBox(x),
                           Hbox |-> counts.Hbox, Tbox |-> counts.Tbox,
                           res |-> CalculateQuasip(x, y, temp_box, MakeBox(x),
                                                   counts.Hbox, counts.Tbox)]
    /\ UNCHANGED x

CallDisplayBoxes ==
    /\ Idle
    /\ \E boxes \in BoxSeqs(x), together \in BOOLEAN :
          \E set_order \in Orders(RestrictedUnion(boxes, MakeBox(x))) :
              call' = [op |-> "display_boxes", boxes |-> boxes, together |-> together,
                       set_order |-> set_order,
                       res |-> DisplayBoxes(x, boxes, together, set_order)]
    /\ UNCHANGED x

CallExperimentsToCases ==
    /\ Idle
    /\ \E experiments \in ExperimentArrays(x) :
          call' = [op |-> "experiments_to_cases", experiments |-> experiments,
                   res |-> ExperimentsToCases(experiments)]
    /\ UNCHANGED x

\* results1 holds the experiments x, results2 the same experiments in
\* reverse order
CallMergeResults ==
    /\ Idle
    /\ \E old_res \in MergedOutcomes, new_res \in MergedOutcomes,
          downsample \in Downsamples :
          \E keys \in Orders(MergeKeys(old_res, new_res)) :
              call' = [op |-> "merge_results",
                       results1 |-> <<x.rows, old_res>>,
                       results2 |-> <<List(Reverse(x.rows)), new_res>>,
                       downsample |-> downsample, keys |-> keys,
                       res |-> MergeResults(<<x.rows, old_res>>,
                                            <<List(Reverse(x.rows)), new_res>>,
                                            downsample, keys)]
    /\ UNCHANGED x

\* save_results writes the file ...
CallSaveResults ==
    /\ Idle
    /\ \E outcomes \in SavedOutcomes :
          \E keys \in Orders(DOMAIN outcomes) :
              call' = [op |-> "save_results", results |-> <<x, outcomes>>,
                       keys |-> keys,
                       file |-> SaveResults(<<x, outcomes>>, keys)]
    /\ UNCHANGED x

\* ... and load_results reads it back, as the test does before it removes
\* the file
CallLoadResults ==
    /\ call.op = "save_results"
    /\ call' = [op |-> "load_results", saved |-> call.results, file |-> call.file,
                res |-> LoadResults(call.file)]
    /\ UNCHANGED x

Return ==
    /\ ~Idle
    /\ call' = [op |-> "none"]
    /\ UNCHANGED x

Next ==
    \/ CallMakeBox
    \/ CallInBox
    \/ CallDetermineRestrictedDims
    \/ CallNormalize
    \/ CallGetSortedBoxLims
    \/ CallSetup
    \/ CallCalculateQuasip
    \/ CallDisplayBoxes
    \/ Return

Spec == Init /\ [][Next]_vars

\* expWorkbench.util is a module of its own: its functions are called on
\* experiments arrays, here the data sets with every label among the
\* categories and small column values
UtilExperiments ==
    {X \in DataSets : /\ X.categories.c = Labels
                      /\ \A r \in DOMAIN X.rows : X.rows[r].a \in 0 .. 1}

UtilInit == x \in UtilExperiments /\ call = [op |-> "none"]

UtilNext ==
    \/ CallExperimentsToCases
    \/ CallMergeResults
    \/ CallSaveResults
    \/ CallLoadResults
    \/ Return

UtilSpec == UtilInit /\ [][UtilNext]_vars

(***************************************************************************)
(* Claims                                                                  *)
(***************************************************************************)
\* exact rational arithmetic for stating the claims: n/d as <<n, d>>, d > 0
RLeq(p, q) == p[1] * q[2] <= q[1] * p[2]
InUnit(f) == IsFinite(f) /\ RLeq(Zero, f) /\ RLeq(f, One)

\* what the data model says a row must satisfy in dimension d
Satisfies(row, box, d) ==
    IF DType[d] = "category" THEN row[d] \in box[d][1]
    ELSE box[d][1] <= row[d] /\ row[d] <= box[d][2]

\* C1: _in_box marks a row as inside iff, for every dimension of the data
\* set, the row's value is within the inclusive numeric limits or its label
\* is in the included set of the box (AND over all dimensions).
C1_InBoxIffEveryLimit ==
    call.op = "in_box" =>
        \A r \in DOMAIN x.rows :
            call.res[r] <=> \A d \in DimSet : Satisfies(x.rows[r], call.boxlim, d)

\* a call where one row is inside, on the boundary of the numeric limits,
\* and another row is outside only because of its category
C1_Witness ==
    /\ call.op = "in_box"
    /\ \E r, q \in DOMAIN x.rows :
          /\ call.res[r] /\ x.rows[r].a = call.boxlim.a[1]
          /\ ~call.res[q] /\ Satisfies(x.rows[q], call.boxlim, "a")
          /\ x.rows[q].c \notin call.boxlim.c[1]

\* C2: _determine_restricted_dims returns exactly the dimensions whose limit
\* differs from box_init's in at least one entry, none skipped, nothing for
\* box_init itself, and _determine_nr_restricted_dims gives their number.
C2_RestrictedDimsExact ==
    call.op = "restricted_dims" =>
        LET differ == {d \in DimSet :
                         \E i \in 1 .. 2 : call.box_limits[d][i] # call.box_init[d][i]}
        IN  /\ Range(call.res) = differ
            /\ call.nr = Cardinality(differ)
            /\ (call.box_limits = call.box_init => call.res = <<>>)

\* a call where only the upper limit of the numeric dimension differs and
\* the categorical dimension is restricted too
C2_Witness ==
    /\ call.op = "restricted_dims"
    /\ call.box_limits.a[1] = call.box_init.a[1]
    /\ call.box_limits.a[2] # call.box_init.a[2]
    /\ call.res = <<"a", "c">>
    /\ call.nr = 2

\* C9: in_box on a data set with the reference box _make_box built from it
\* is true for every row.
C9_ReferenceBoxHoldsAllRows ==
    (call.op = "in_box" /\ call.boxlim = MakeBox(x)) =>
        \A r \in DOMAIN x.rows : call.res[r]

\* the reference box of a data set with two numeric values and two labels
C9_Witness ==
    /\ call.op = "in_box"
    /\ call.boxlim = MakeBox(x)
    /\ call.boxlim.a[1] < call.boxlim.a[2]
    /\ Cardinality(call.boxlim.c[1]) = 2
    /\ \A r \in DOMAIN x.rows : call.res[r]

NumericRequested(i) ==
    call.op = "normalize" /\ i \in DOMAIN call.uncertainties
        /\ DType[call.uncertainties[i]] # "category"

CategoricalRequested(i) ==
    call.op = "normalize" /\ i \in DOMAIN call.uncertainties
        /\ DType[call.uncertainties[i]] = "category"

\* C3 as claimed: categorical dimensions give (0, |box set| / |init set|);
\* on a numeric dimension of non-zero width every value is in [0, 1] and
\* box_init itself is normalized to exactly (0, 1).
C3_NormalizeExactUnitInterval ==
    call.op = "normalize" =>
        \A i \in DOMAIN call.uncertainties :
            LET u == call.uncertainties[i]
            IN  /\ CategoricalRequested(i) =>
                      call.res[i] = <<Zero, Rat(Cardinality(call.box_lim[u][1]),
                                                Cardinality(call.box_init[u][1]))>>
                /\ (NumericRequested(i) /\ call.box_init[u][1] # call.box_init[u][2]) =>
                      /\ InUnit(call.res[i][1]) /\ InUnit(call.res[i][2])
                      /\ (call.box_lim[u] = call.box_init[u] =>
                              call.res[i] = <<Zero, One>>)

\* |f - (v - lo) / dif| <= 4 * 2^-p * (|v| + |lo|) / dif
WithinRounding(f, v, lo, dif) ==
    /\ IsFinite(f)
    /\ Abs(f[1] * dif - (v - lo) * f[2]) * Pow2(MantissaBits)
           <= 4 * (Abs(v) + Abs(lo)) * f[2]

\* C3 as amended: a numeric dimension of non-zero width is normalized to the
\* affine values (limit - init_lower) / (init_upper - init_lower) up to the
\* rounding of the float operations; a categorical one to 0 and the rounded
\* fraction of the categories, which is in [0, 1].
C3_NormalizeUpToRounding ==
    call.op = "normalize" =>
        \A i \in DOMAIN call.uncertainties :
            LET u == call.uncertainties[i]
            IN  /\ CategoricalRequested(i) =>
                      /\ call.res[i][1] = Zero
                      /\ call.res[i][2] = Fl(Rat(Cardinality(call.box_lim[u][1]),
                                                 Cardinality(call.box_init[u][1])))
                      /\ InUnit(call.res[i][2])
                /\ (NumericRequested(i) /\ call.box_init[u][1] # call.box_init[u][2]) =>
                      LET lo  == call.box_init[u][1]
                          dif == call.box_init[u][2] - lo
                      IN  /\ WithinRounding(call.res[i][1], call.box_lim[u][1], lo, dif)
                          /\ WithinRounding(call.res[i][2], call.box_lim[u][2], lo, dif)

\* a call that normalizes a box strictly inside the reference box on both a
\* numeric dimension with init_lower # 0 and the categorical dimension
C3_Witness ==
    /\ call.op = "normalize"
    /\ call.uncertainties = <<"a", "c">>
    /\ call.box_init.a[1] # 0
    /\ call.box_init.a[1] < call.box_lim.a[1]
    /\ call.box_lim.a[1] < call.box_lim.a[2]
    /\ call.box_lim.a[2] < call.box_init.a[2]
    /\ call.box_lim.c # call.box_init.c
    /\ call.res[2] = <<Zero, <<1, 2>>>>

\* C6: with init_upper == init_lower on a requested numeric dimension,
\* _normalize signals the condition and returns no limits obtained by a
\* division by zero.
C6_ZeroWidthSignalled ==
    (call.op = "normalize"
        /\ \E i \in DOMAIN call.uncertainties :
              NumericRequested(i)
                  /\ call.box_init[call.uncertainties[i]][1]
                         = call.box_init[call.uncertainties[i]][2]) =>
        call.raised # "none"

\* the rows satisfying every limit of the box except the one on dimension u
RowsRelaxing(u) ==
    {r \in DOMAIN x.rows :
        \A d \in DimSet \ {u} : Satisfies(x.rows[r], call.box, d)}

\* C4: the counts behind p = Hj / Tj are taken over the rows inside the box
\* with the one restricted dimension u relaxed and every other restriction
\* kept: Tj counts those rows, Hj those of them that are cases of interest,
\* and the binomial test gets the box's own counts and p.
C4_CountsOverRelaxedBox ==
    call.op = "calculate_quasip" =>
        LET Tj == Cardinality(RowsRelaxing(call.u))
            Hj == Cardinality({r \in RowsRelaxing(call.u) : call.y[r]})
        IN  /\ call.res.Tj = Tj
            /\ call.res.Hj = Hj
            /\ Tj > 0 => call.res.p = Fl(Rat(Hj, Tj))
            /\ call.res.qp.p = call.res.p
            /\ call.res.qp.alternative = "greater"
            /\ <<call.res.qp.x, call.res.qp.n>> =
                   <<Cardinality({r \in DOMAIN x.rows :
                        call.y[r] /\ \A d \in DimSet : Satisfies(x.rows[r], call.box, d)}),
                     Cardinality({r \in DOMAIN x.rows :
                        \A d \in DimSet : Satisfies(x.rows[r], call.box, d)})>>

\* a box restricted on both dimensions: relaxing one dimension lets in a row
\* the box excludes while the other restriction still excludes a row
C4_Witness ==
    /\ call.op = "calculate_quasip"
    /\ call.res.Tj = 1
    /\ call.res.Hj = 1
    /\ call.res.qp.n = 0
    /\ Len(DetermineRestrictedDims(call.box, call.box_init)) = 2

\* the dimensions some box of the call restricts
RestrictedBySome ==
    {d \in DimSet : \E k \in DOMAIN call.boxes : call.boxes[k][d] # call.box_init[d]}

\* the normalized width of boxes[0] on dimension d, as the code computes it
WidthOfFirst(d) ==
    LET nbl == Normalize(call.boxes[1], call.box_init, <<d>>)[1]
    IN  FSub(nbl[2], nbl[1])

\* d is met before e when the boxes are scanned in sequence order and the
\* columns of each in column order
EncounterBefore(d, e) ==
    LET first(c) == CHOOSE k \in DOMAIN call.boxes :
                        /\ call.boxes[k][c] # call.box_init[c]
                        /\ \A m \in 1 .. k - 1 : call.boxes[m][c] = call.box_init[c]
    IN  \/ first(d) < first(e)
        \/ first(d) = first(e) /\ Index(Dims, d) < Index(Dims, e)

\* C5 as claimed: the dimension list is the union of the restricted
\* dimensions of all boxes, in ascending normalized width of boxes[0], and
\* dimensions of equal width keep their encounter order.
C5_TiesInEncounterOrder ==
    call.op = "get_sorted_box_lims" =>
        LET uncs == call.res[2]
        IN  /\ Range(uncs) = RestrictedBySome
            /\ Len(uncs) = Cardinality(RestrictedBySome)
            /\ \A i, j \in DOMAIN uncs : i < j =>
                  /\ ~FLess(WidthOfFirst(uncs[j]), WidthOfFirst(uncs[i]))
                  /\ WidthOfFirst(uncs[i]) = WidthOfFirst(uncs[j]) =>
                         EncounterBefore(uncs[i], uncs[j])

\* C5 as amended: the dimension list holds each dimension restricted by any
\* box exactly once, in ascending computed normalized width of boxes[0]; the
\* boxes are returned as given.  The order of equal widths is not fixed.
C5_UnionAscendingWidth ==
    call.op = "get_sorted_box_lims" =>
        LET uncs == call.res[2]
        IN  /\ call.res[1] = call.boxes
            /\ Range(uncs) = RestrictedBySome
            /\ Len(uncs) = Cardinality(RestrictedBySome)
            /\ \A i, j \in DOMAIN uncs : i < j =>
                  ~FLess(WidthOfFirst(uncs[j]), WidthOfFirst(uncs[i]))

\* boxes[0] restricts only the categorical dimension, a later box the numeric
\* one too, and the narrower categorical dimension is listed first although
\* the set was iterated numeric first
C5_Witness ==
    /\ call.op = "get_sorted_box_lims"
    /\ Len(call.boxes) = 2
    /\ call.boxes[1].a = call.box_init.a
    /\ call.boxes[1].c # call.box_init.c
    /\ call.boxes[2].a # call.box_init.a
    /\ call.set_order = <<"a", "c">>
    /\ call.res[2] = <<"c", "a">>

\* C7: when the relaxed box holds no row (Tj = 0), _calculate_quasip signals
\* the undefined statistic and does not compute p by dividing by zero.
C7_EmptyRelaxedBoxSignalled ==
    (call.op = "calculate_quasip" /\ call.res.Tj = 0) =>
        call.res.raised # "none"

\* C8: a string classify gives mode REGRESSION and y the outcome of that
\* name; a callable gives mode BINARY and y the callable applied to the
\* outcomes; anything else raises TypeError and returns no (x, y, mode).
C8_ModeFollowsClassify ==
    call.op = "setup" =>
        LET outcomes == call.results[2]
        IN  /\ call.classify.type = "str" =>
                  /\ call.res.raised = "none"
                  /\ call.res.mode = REGRESSION
                  /\ call.res.y = outcomes[call.classify.name]
            /\ call.classify.type = "callable" =>
                  /\ call.res.raised = "none"
                  /\ call.res.mode = BINARY
                  /\ call.res.y = [r \in 1 .. NRows |->
                                      outcomes[call.classify.of][r] > call.classify.threshold]
            /\ call.classify.type \notin {"str", "callable"} =>
                  /\ call.res.raised = "TypeError"
                  /\ DOMAIN call.res = {"raised"}

\* a classify that is neither a string nor a callable, rejected after the
\* columns were already restricted to incl_unc
C8_Witness ==
    /\ call.op = "setup"
    /\ call.classify.type = "NoneType"
    /\ call.incl_unc = <<"a">>
    /\ call.res = [raised |-> "TypeError"]

C11_InputsNotMutated ==
    [][/\ x' = x
       /\ call'.op = "get_sorted_box_lims" =>
              /\ call'.boxes_after = call'.boxes
              /\ call'.box_init = MakeBox(x')]_vars

\* _setup has dropped column c from the frame it returns while the data set
\* it was given still has both columns
C11_Witness ==
    /\ call.op = "setup"
    /\ call.incl_unc = <<"a">>
    /\ call.res.raised = "none"
    /\ DOMAIN call.res.x.rows[1] = {"a"}
    /\ DOMAIN x.rows[1] = {"a", "c"}
    /\ x = call.results[1]

\* C12: _make_box fails with TypeError for a data set that has a dimension
\* whose values are neither numeric nor categorical or label-like, and
\* returns no reference box for it.
C12_OtherDtypeRejected ==
    (call.op = "make_box"
        /\ \E d \in DOMAIN call.frame.rows[1] :
              DType[d] \notin {"int64", "float64", "category"}) =>
        call.res.raised = "TypeError"

\* C13: load_results applied to the file save_results wrote returns an
\* outcome map with the names that were saved, each array with the shape and
\* the values of the array saved under that name.
C13_OutcomesRoundTrip ==
    call.op = "load_results" =>
        /\ call.res.raised = "none"
        /\ DOMAIN call.res.outcomes = DOMAIN call.saved[2]
        /\ \A n \in DOMAIN call.saved[2] :
              /\ call.res.outcomes[n].shape = call.saved[2][n].shape
              /\ \A ix \in Indices(call.saved[2][n].shape) :
                    call.res.outcomes[n].at[ix] = call.saved[2][n].at[ix]

\* C14: whichever of the fields policy and model the experiments array has,
\* no case experiments_to_cases returns has the key policy or the key model,
\* and every other field of the array is a key of every case.
C14_PolicyAndModelRemoved ==
    call.op = "experiments_to_cases" =>
        \A i \in DOMAIN call.res :
            /\ "policy" \notin DOMAIN call.res[i]
            /\ "model" \notin DOMAIN call.res[i]
            /\ Range(call.experiments.names) \ {"policy", "model"}
                   \subseteq DOMAIN call.res[i]

\* C15: for results whose shared outcomes have the same number of columns,
\* also when their key sets differ, merge_results returns merged outcomes
\* whose keys are exactly the keys in both, each with the rows of results1
\* followed by the rows of results2, and merged experiments made of the
\* rows of results1 followed by those of results2.
C15_MergesSharedOutcomes ==
    (call.op = "merge_results" /\ call.downsample = 0
        /\ \A k \in (DOMAIN call.results1[2]) \cap (DOMAIN call.results2[2]) :
              call.results1[2][k].shape[2] = call.results2[2][k].shape[2]) =>
        LET old_exp == call.results1[1]
            new_exp == call.results2[1]
            both == (DOMAIN call.results1[2]) \cap (DOMAIN call.results2[2])
        IN  /\ call.res.raised = "none"
            /\ Len(call.res.merged_exp) = Len(old_exp) + Len(new_exp)
            /\ \A i \in DOMAIN old_exp : call.res.merged_exp[i] = old_exp[i]
            /\ \A i \in DOMAIN new_exp :
                  call.res.merged_exp[Len(old_exp) + i] = new_exp[i]
            /\ DOMAIN call.res.merged_res = both
            /\ \A k \in both :
                  LET old == call.results1[2][k]
                      new == call.results2[2][k]
                      got == call.res.merged_res[k]
                  IN  /\ got.shape = <<old.shape[1] + new.shape[1], old.shape[2]>>
                      /\ \A ix \in Indices(old.shape) : got.at[ix] = old.at[ix]
                      /\ \A ix \in Indices(new.shape) :
                            got.at[<<old.shape[1] + ix[1], ix[2]>>] = new.at[ix]
====
